---------------------------- MODULE Spec2Model ----------------------------
(***************************************************************************)
(* Model of the analytics server of src/src/index.ts and its collections   *)
(* of src/src/db.ts: the three request handlers (POST /api/analytics/      *)
(* pageload, POST /api/analytics/event, GET /api/analytics/pageloads),     *)
(* the key they derive from the clock, and the store they write to.        *)
(*                                                                         *)
(* A JavaScript string is modelled as the sequence of its characters, each *)
(* a one-character string, ordered by character code.  A Date is modelled  *)
(* as [day, ms]: the days since 1970-01-01 (UTC) and the milliseconds      *)
(* within that day, i.e. getTime() = day * 86400000 + ms.                  *)
(***************************************************************************)
EXTENDS Integers, Sequences, FiniteSets, TLC

(***************************************************************************)
(* Bounds of the model.                                                    *)
(***************************************************************************)
\* number of HTTP requests in flight in one behaviour
NumRequests == 2
\* number of times the clock advances in one behaviour
MaxTicks == 1
\* minutes from the server's start to the last request of a counting run
MaxWaitMinutes == 60

(***************************************************************************)
(* Strings.                                                                *)
(***************************************************************************)
\* code of each character the keys are made of (the order of string comparison)
CharCode(c) ==
  CASE c = "#" -> 35 [] c = "+" -> 43 [] c = "-" -> 45 [] c = "." -> 46
    [] c = "0" -> 48 [] c = "1" -> 49 [] c = "2" -> 50 [] c = "3" -> 51
    [] c = "4" -> 52 [] c = "5" -> 53 [] c = "6" -> 54 [] c = "7" -> 55
    [] c = "8" -> 56 [] c = "9" -> 57 [] c = ":" -> 58 [] c = "T" -> 84
    [] c = "Z" -> 90 [] c = "u" -> 117

Digit(n) == <<"0", "1", "2", "3", "4", "5", "6", "7", "8", "9">>[n + 1]

\* n written with exactly w decimal digits (String.prototype.padStart(w, "0"))
Pad(n, w) == [k \in 1..w |-> Digit((n \div (10 ^ (w - k))) % 10)]

\* s.substring(from, to), 0-based, to exclusive
substring(s, from, to) ==
  SubSeq(s, from + 1, IF to > Len(s) THEN Len(s) ELSE to)

\* a < b in the order of string comparison (code unit by code unit, a proper
\* prefix first): the order of MongoDB's $gte/$lte and sort on strings
StrLess(a, b) ==
  LET n == IF Len(a) < Len(b) THEN Len(a) ELSE Len(b)
      differ == {i \in 1..n : a[i] # b[i]}
  IN  IF differ = {} THEN Len(a) < Len(b)
      ELSE LET i == CHOOSE k \in differ : \A j \in differ : k <= j
           IN  CharCode(a[i]) < CharCode(b[i])

StrLeq(a, b) == a = b \/ StrLess(a, b)

(***************************************************************************)
(* Dates.                                                                  *)
(***************************************************************************)
MsPerDay == 24 * 60 * 60 * 1000

\* new Date(t.getTime() + n), n in milliseconds (n may be negative)
DatePlus(t, n) ==
  [day |-> t.day + ((t.ms + n) \div MsPerDay), ms |-> (t.ms + n) % MsPerDay]

\* t1.getTime() < t2.getTime()
DateLess(t1, t2) == t1.day < t2.day \/ (t1.day = t2.day /\ t1.ms < t2.ms)

\* the minutes from 1970-01-01T00:00Z to the minute of instant t
MinuteNumber(t) == t.day * 1440 + (t.ms \div 60000)

\* the UTC calendar date of a day number: [y, m, d] (proleptic Gregorian)
CivilFromDays(day) ==
  LET z   == day + 719468
      era == z \div 146097
      doe == z - era * 146097
      yoe == (doe - doe \div 1460 + doe \div 36524 - doe \div 146096) \div 365
      doy == doe - (365 * yoe + yoe \div 4 - yoe \div 100)
      mp  == (5 * doy + 2) \div 153
      d   == doy - (153 * mp + 2) \div 5 + 1
      m   == IF mp < 10 THEN mp + 3 ELSE mp - 9
      y   == yoe + era * 400 + (IF m <= 2 THEN 1 ELSE 0)
  IN  [y |-> y, m |-> m, d |-> d]

\* the year of an ISO string: four digits, or a sign and six digits outside 0..9999
YearString(y) ==
  IF y >= 0 /\ y <= 9999 THEN Pad(y, 4)
  ELSE IF y > 9999 THEN <<"+">> \o Pad(y, 6)
  ELSE <<"-">> \o Pad(0 - y, 6)

\* Date.prototype.toISOString(): YYYY-MM-DDTHH:mm:ss.sssZ
toISOString(t) ==
  LET c == CivilFromDays(t.day)
  IN  YearString(c.y) \o <<"-">> \o Pad(c.m, 2) \o <<"-">> \o Pad(c.d, 2)
        \o <<"T">> \o Pad(t.ms \div 3600000, 2)
        \o <<":">> \o Pad((t.ms \div 60000) % 60, 2)
        \o <<":">> \o Pad((t.ms \div 1000) % 60, 2)
        \o <<".">> \o Pad(t.ms % 1000, 3) \o <<"Z">>

\* a key cut after the tens digit of the minute: substring(0, 15) + '0:00'
TenMinuteKey(t) == substring(toISOString(t), 0, 15) \o <<"0", ":", "0", "0">>

\* a key that writes the date day first: DD-MM-YYYYTHH:mm + '0:00'
DayFirstKey(t) ==
  LET iso == toISOString(t)
  IN  substring(iso, 8, 10) \o <<"-">> \o substring(iso, 5, 7) \o <<"-">>
        \o substring(iso, 0, 4) \o substring(iso, 10, 16)
        \o <<"0", ":", "0", "0">>

\* the key of a Date: toISOString().substring(0, 16) + '0:00'
MinuteKey(t) == substring(toISOString(t), 0, 16) \o <<"0", ":", "0", "0">>

(***************************************************************************)
(* State.                                                                  *)
(***************************************************************************)
VARIABLES
  clock,                \* the instant new Date() returns now
  ticks,                \* how many times the clock has advanced
  PageLoadModel,        \* the PageLoad collection: a set of documents
  PageLoadDetailModel,  \* the PageLoadDetail collection
  AnalyticsEventModel,  \* the AnalyticsEvent collection
  req                   \* per request: its handler's locals, position, store
                        \* calls issued and responses sent

vars == <<clock, ticks, PageLoadModel, PageLoadDetailModel, AnalyticsEventModel, req>>

Requests == 1..NumRequests

\* the event names a client posts
Events == {"button_click"}

\* the messages of the errors a store operation throws
StoreErrors == {"Database error"}

\* the message of the server's duplicate key error
DuplicateKeyError == "E11000 duplicate key error"

\* 2025-12-31T23:59:59.999Z, the last millisecond of a minute, hour, day,
\* month and year
StartInstant == [day |-> 20453, ms |-> 86399999]

NoDate == [day |-> 0, ms |-> 0]

NewRequest ==
  [kind |-> "none", pc |-> "new", body |-> "", timestamp |-> NoDate,
   minuteKey |-> << >>, result |-> << >>, calls |-> << >>,
   responses |-> << >>]

\* uuidv4(): a fresh identifier, one per request that draws it
uuidv4(r) == <<"u", Digit(r)>>

(***************************************************************************)
(* Responses.                                                              *)
(***************************************************************************)
\* res.status(200).json({ success: true })
SuccessResponse == [status |-> 200, body |-> [success |-> TRUE]]

\* an error handler that hides the error's message
errorHandlerGeneric(err) ==
  [status |-> 500,
   body |-> [success |-> FALSE, error |-> "Internal Server Error"]]

\* res.status(500).json({ success: false, error: err.message })
errorHandler(err) ==
  [status |-> 500, body |-> [success |-> FALSE, error |-> err.message]]

\* the request issues a store call and waits for it at position pc
Call(q, pc, call) ==
  [q EXCEPT !.pc = pc, !.calls = Append(@, call @@ [outcome |-> "pending"])]

\* the pending call of the request returns
Returned(q) == [q EXCEPT !.calls[Len(q.calls)].outcome = "ok"]

\* a catch clause that logs the error and answers as if nothing had failed
SwallowError(q, err) ==
  [q EXCEPT !.calls[Len(q.calls)].outcome = err.message,
            !.responses = Append(@, SuccessResponse),
            !.pc = "done"]

\* the pending call throws err; catch (error) { next(error) } hands it to
\* errorHandler, which answers
Thrown(q, err) ==
  [q EXCEPT !.calls[Len(q.calls)].outcome = err.message,
            !.responses = Append(@, errorHandler(err)),
            !.pc = "done"]

\* the handler sends its own response and ends
Respond(q, response) ==
  [q EXCEPT !.responses = Append(@, response), !.pc = "done"]

(***************************************************************************)
(* The store.                                                              *)
(***************************************************************************)
\* the documents the filter { eventType, timeKey } matches
Matching(coll, eventType, timeKey) ==
  {d \in coll : d.eventType = eventType /\ d.timeKey = timeKey}

\* a schema whose index is not unique: no insert is rejected
NoUniqueIndex(coll, doc) == FALSE

\* pageLoadSchema.index({ eventType: 1, timeKey: 1 }, { unique: true }):
\* inserting doc would give two documents the same (eventType, timeKey)
UniqueIndexViolated(coll, doc) ==
  Matching(coll, doc.eventType, doc.timeKey) # {}

\* an update that writes the count instead of incrementing it:
\* { $set: { count: 1, lastUpdated: timestamp } }
SetCountOne(d, timestamp) ==
  [d EXCEPT !.count = 1, !.lastUpdated = timestamp]

\* { $inc: { count: 1 }, $set: { lastUpdated: timestamp } } on a matched document
ApplyUpdate(d, timestamp) ==
  [d EXCEPT !.count = @ + 1, !.lastUpdated = timestamp]

\* an upsert that inserts the filter's fields and a count of 0, the increment
\* not applied to the inserted document
UpsertDocumentUncounted(r, eventType, timeKey, timestamp) ==
  [id |-> r, eventType |-> eventType, timeKey |-> timeKey, count |-> 0,
   lastUpdated |-> timestamp]

\* the document an upsert inserts when the filter matches none: the filter's
\* fields, then the update applied to them ($inc of a missing field sets it)
UpsertDocument(r, eventType, timeKey, timestamp) ==
  [id |-> r, eventType |-> eventType, timeKey |-> timeKey, count |-> 1,
   lastUpdated |-> timestamp]

(***************************************************************************)
(* POST /api/analytics/pageload                                            *)
(***************************************************************************)
\* the call PageLoadDetailModel.create({...}) of the handler
DetailCall(q, r) ==
  [op |-> "create", eventType |-> "pageLoadDetail",
   timeKey |-> q.minuteKey \o <<"#">> \o uuidv4(r)]

\* the request arrives: the handler takes the time, derives the key and calls
\* PageLoadModel.findOneAndUpdate(filter, update, { upsert: true })
PageLoadStart(r) ==
  /\ req[r].pc = "new"
  /\ LET timestamp == clock
         minuteKey == MinuteKey(timestamp)
     IN  req' = [req EXCEPT ![r] =
           Call([@ EXCEPT !.kind = "pageload", !.timestamp = timestamp,
                          !.minuteKey = minuteKey,
                          !.body = [url |-> "https://example.com"]],
                "findOneAndUpdate",
                [op |-> "findOneAndUpdate", eventType |-> "pageLoad",
                 timeKey |-> minuteKey])]
  /\ UNCHANGED <<clock, ticks, PageLoadModel, PageLoadDetailModel, AnalyticsEventModel>>

\* a handler that answers 200 as soon as the increment has returned
RespondAfterIncrement(q, r) == Respond(Returned(q), SuccessResponse)

\* the increment has returned: the handler calls PageLoadDetailModel.create
AfterIncrement(q, r) == Call(Returned(q), "create", DetailCall(q, r))

\* the store runs the upsert: a matching document is updated in place; when
\* there is none the upsert goes on to insert one
UpsertMatch(r) ==
  /\ req[r].kind = "pageload" /\ req[r].pc = "findOneAndUpdate"
  /\ LET q == req[r]
         found == Matching(PageLoadModel, "pageLoad", q.minuteKey)
     IN  IF found # {}
         THEN \E d \in found :
                /\ PageLoadModel' =
                     (PageLoadModel \ {d}) \cup {ApplyUpdate(d, q.timestamp)}
                /\ req' = [req EXCEPT ![r] = AfterIncrement(q, r)]
         ELSE /\ req' = [req EXCEPT ![r].pc = "upsertInsert"]
              /\ UNCHANGED PageLoadModel
  /\ UNCHANGED <<clock, ticks, PageLoadDetailModel, AnalyticsEventModel>>

\* the upsert inserts its document, unless another upsert has inserted one for
\* the same key meanwhile: the unique index then rejects the insert, and the
\* server either runs the upsert again or reports the duplicate key
UpsertInsert(r) ==
  /\ req[r].kind = "pageload" /\ req[r].pc = "upsertInsert"
  /\ LET q == req[r]
         doc == UpsertDocument(r, "pageLoad", q.minuteKey, q.timestamp)
     IN  IF UniqueIndexViolated(PageLoadModel, doc)
         THEN /\ \/ req' = [req EXCEPT ![r].pc = "findOneAndUpdate"]
                 \/ req' = [req EXCEPT ![r] =
                              Thrown(q, [message |-> DuplicateKeyError])]
              /\ UNCHANGED PageLoadModel
         ELSE /\ PageLoadModel' = PageLoadModel \cup {doc}
              /\ req' = [req EXCEPT ![r] = AfterIncrement(q, r)]
  /\ UNCHANGED <<clock, ticks, PageLoadDetailModel, AnalyticsEventModel>>

\* findOneAndUpdate throws: the store is left as it was
IncrementFails(r) ==
  /\ req[r].kind = "pageload" /\ req[r].pc \in {"findOneAndUpdate", "upsertInsert"}
  /\ \E message \in StoreErrors :
       req' = [req EXCEPT ![r] = Thrown(@, [message |-> message])]
  /\ UNCHANGED <<clock, ticks, PageLoadModel, PageLoadDetailModel, AnalyticsEventModel>>

\* PageLoadDetailModel.create returns: the detail document is stored and the
\* handler answers 200
DetailCreate(r) ==
  /\ req[r].kind = "pageload" /\ req[r].pc = "create"
  /\ LET q == req[r]
         call == q.calls[Len(q.calls)]
     IN  /\ PageLoadDetailModel' = PageLoadDetailModel \cup
              {[id |-> r, eventType |-> call.eventType, timeKey |-> call.timeKey,
                timestamp |-> q.timestamp, eventData |-> q.body]}
         /\ req' = [req EXCEPT ![r] = Respond(Returned(q), SuccessResponse)]
  /\ UNCHANGED <<clock, ticks, PageLoadModel, AnalyticsEventModel>>

\* PageLoadDetailModel.create throws: nothing is stored, nothing is undone
DetailCreateFails(r) ==
  /\ req[r].kind = "pageload" /\ req[r].pc = "create"
  /\ \E message \in StoreErrors :
       req' = [req EXCEPT ![r] = Thrown(@, [message |-> message])]
  /\ UNCHANGED <<clock, ticks, PageLoadModel, PageLoadDetailModel, AnalyticsEventModel>>

(***************************************************************************)
(* POST /api/analytics/event                                               *)
(***************************************************************************)
\* a handler that stores the event's name without the prefix
EventCallUnprefixed(event, timestamp, r) ==
  [op |-> "create", eventType |-> event,
   timeKey |-> toISOString(timestamp) \o <<"#">> \o uuidv4(r)]

\* the call AnalyticsEventModel.create({...}) of the handler
EventCall(event, timestamp, r) ==
  [op |-> "create", eventType |-> "event_" \o event,
   timeKey |-> toISOString(timestamp) \o <<"#">> \o uuidv4(r)]

\* the request arrives with body { event, data }: the handler takes the time
\* and calls AnalyticsEventModel.create({...})
EventStart(r) ==
  /\ req[r].pc = "new"
  /\ \E event \in Events :
       LET timestamp == clock
       IN  req' = [req EXCEPT ![r] =
             Call([@ EXCEPT !.kind = "event", !.timestamp = timestamp,
                            !.body = [event |-> event, data |-> "data"]],
                  "create", EventCall(event, timestamp, r))]
  /\ UNCHANGED <<clock, ticks, PageLoadModel, PageLoadDetailModel, AnalyticsEventModel>>

\* AnalyticsEventModel.create returns: the event document is stored and the
\* handler answers 200
EventCreate(r) ==
  /\ req[r].kind = "event" /\ req[r].pc = "create"
  /\ LET q == req[r]
         call == q.calls[Len(q.calls)]
     IN  /\ AnalyticsEventModel' = AnalyticsEventModel \cup
              {[id |-> r, eventType |-> call.eventType, timeKey |-> call.timeKey,
                timestamp |-> q.timestamp, eventData |-> q.body.data]}
         /\ req' = [req EXCEPT ![r] = Respond(Returned(q), SuccessResponse)]
  /\ UNCHANGED <<clock, ticks, PageLoadModel, PageLoadDetailModel>>

\* AnalyticsEventModel.create throws: nothing is stored
EventCreateFails(r) ==
  /\ req[r].kind = "event" /\ req[r].pc = "create"
  /\ \E message \in StoreErrors :
       req' = [req EXCEPT ![r] = Thrown(@, [message |-> message])]
  /\ UNCHANGED <<clock, ticks, PageLoadModel, PageLoadDetailModel, AnalyticsEventModel>>

(***************************************************************************)
(* GET /api/analytics/pageloads                                            *)
(***************************************************************************)
\* a query whose range leaves out its two ends: timeKey: { $gt, $lt }
FindExclusive(coll, eventType, gte, lte) ==
  {d \in coll : /\ d.eventType = eventType
                /\ StrLess(gte, d.timeKey)
                /\ StrLess(d.timeKey, lte)}

\* PageLoadModel.find({ eventType, timeKey: { $gte, $lte } }): the matching set
Find(coll, eventType, gte, lte) ==
  {d \in coll : /\ d.eventType = eventType
                /\ StrLeq(gte, d.timeKey)
                /\ StrLeq(d.timeKey, lte)}

\* .sort({ timeKey: 1 }): the documents as an array in ascending timeKey
\* order (documents of equal timeKey in the order of their ids)
SortByTimeKey(docs) ==
  LET Before(e, d) == \/ StrLess(e.timeKey, d.timeKey)
                      \/ (e.timeKey = d.timeKey /\ e.id < d.id)
      rank == [d \in docs |-> Cardinality({e \in docs : Before(e, d)})]
  IN  [i \in 1..Cardinality(docs) |-> CHOOSE d \in docs : rank[d] = i - 1]

\* a lookup that matches a key through the tens digit of its minute only
existingRecordOfTenMinutes(result, minuteKey) ==
  LET at == {i \in 1..Len(result) :
               substring(result[i].timeKey, 0, 15) = substring(minuteKey, 0, 15)}
  IN  IF at = {} THEN << >>
      ELSE <<result[CHOOSE i \in at : \A j \in at : i <= j]>>

\* result.find((item) => item.timeKey === minuteKey): the first such item as a
\* one-element sequence, the empty sequence for undefined
existingRecord(result, minuteKey) ==
  LET at == {i \in 1..Len(result) : result[i].timeKey = minuteKey}
  IN  IF at = {} THEN << >>
      ELSE <<result[CHOOSE i \in at : \A j \in at : i <= j]>>

\* Date.prototype.toLocaleTimeString(): a clock time for display; its form
\* depends on the host's locale and zone, here 24-hour UTC
toLocaleTimeString(t) ==
  Pad(t.ms \div 3600000, 2) \o <<":">> \o Pad((t.ms \div 60000) % 60, 2)
    \o <<":">> \o Pad((t.ms \div 1000) % 60, 2)

\* a loop that appends where the handler prepends: pageLoads.push(...items)
push(pageLoads, items) == pageLoads \o items

\* pageLoads.unshift(...items): the items go in front of the array
unshift(pageLoads, items) == items \o pageLoads

\* the body of the loop for one i: the slot of the minute i minutes before endTime
Slot(endTime, result, i) ==
  LET minuteTime == DatePlus(endTime, 0 - i * 60 * 1000)
      minuteKey == MinuteKey(minuteTime)
      existing == existingRecord(result, minuteKey)
  IN  [timeKey |-> minuteKey,
       displayTime |-> toLocaleTimeString(minuteTime),
       count |-> IF existing # << >> THEN existing[1].count ELSE 0]

\* for (let i = lo; i < hi; i++) { ... pageLoads.unshift({...}) } run on an
\* empty array: the slot of each i, those of the later iterations in front
RECURSIVE PageLoadsLoop(_, _, _, _)
PageLoadsLoop(endTime, result, lo, hi) ==
  IF hi <= lo THEN << >>
  ELSE IF hi = lo + 1 THEN unshift(<< >>, <<Slot(endTime, result, lo)>>)
  ELSE LET mid == (lo + hi) \div 2
       IN  unshift(PageLoadsLoop(endTime, result, lo, mid),
                   PageLoadsLoop(endTime, result, mid, hi))

\* the request arrives: the handler takes the time, derives the two ends of
\* the range and calls PageLoadModel.find(...).sort(...).exec()
SeriesStart(r) ==
  /\ req[r].pc = "new"
  /\ LET endTime == clock
         startTime == DatePlus(endTime, 0 - 60 * 60 * 1000)
         startTimeKey == MinuteKey(startTime)
         endTimeKey == MinuteKey(endTime)
     IN  req' = [req EXCEPT ![r] =
           Call([@ EXCEPT !.kind = "pageloads", !.timestamp = endTime],
                "find",
                [op |-> "find", eventType |-> "pageLoad",
                 timeKey |-> [gte |-> startTimeKey, lte |-> endTimeKey]])]
  /\ UNCHANGED <<clock, ticks, PageLoadModel, PageLoadDetailModel, AnalyticsEventModel>>

\* the query returns: the handler builds the 60 slots and answers 200 with them
SeriesFind(r) ==
  /\ req[r].kind = "pageloads" /\ req[r].pc = "find"
  /\ LET q == req[r]
         call == q.calls[Len(q.calls)]
         result == SortByTimeKey(Find(PageLoadModel, call.eventType,
                                      call.timeKey.gte, call.timeKey.lte))
         pageLoads == PageLoadsLoop(q.timestamp, result, 0, 60)
     IN  req' = [req EXCEPT ![r] =
           Respond([Returned(q) EXCEPT !.result = result],
                   [status |-> 200, body |-> pageLoads])]
  /\ UNCHANGED <<clock, ticks, PageLoadModel, PageLoadDetailModel, AnalyticsEventModel>>

\* the query throws
SeriesFindFails(r) ==
  /\ req[r].kind = "pageloads" /\ req[r].pc = "find"
  /\ \E message \in StoreErrors :
       req' = [req EXCEPT ![r] = Thrown(@, [message |-> message])]
  /\ UNCHANGED <<clock, ticks, PageLoadModel, PageLoadDetailModel, AnalyticsEventModel>>

(***************************************************************************)
(* The clock, and the system.                                              *)
(***************************************************************************)
\* time passes: the clock advances by its resolution, a millisecond
Tick ==
  /\ ticks < MaxTicks
  /\ clock' = DatePlus(clock, 1)
  /\ ticks' = ticks + 1
  /\ UNCHANGED <<PageLoadModel, PageLoadDetailModel, AnalyticsEventModel, req>>

\* the server at instant now with the counters given, before any request
Started(now, counters) ==
  /\ clock = now
  /\ ticks = 0
  /\ PageLoadModel = counters
  /\ PageLoadDetailModel = {}
  /\ AnalyticsEventModel = {}
  /\ req = [r \in Requests |-> NewRequest]

\* the server has started, the collections are empty, no request has arrived
Init == Started(StartInstant, {})

Next ==
  \/ Tick
  \/ \E r \in Requests :
       \/ PageLoadStart(r)
       \/ UpsertMatch(r)
       \/ UpsertInsert(r)
       \/ IncrementFails(r)
       \/ DetailCreate(r)
       \/ DetailCreateFails(r)
       \/ EventStart(r)
       \/ EventCreate(r)
       \/ EventCreateFails(r)
       \/ SeriesStart(r)
       \/ SeriesFind(r)
       \/ SeriesFindFails(r)

Spec == Init /\ [][Next]_vars

(***************************************************************************)
(* The key of the handlers over a range of instants: page loads arrive     *)
(* while time passes, in milliseconds or in jumps.                         *)
(***************************************************************************)
\* the instants the server starts at: the last millisecond before the minute,
\* the ten minutes, the hour, the day, the month, the year, the decade and
\* the century change, before and on a leap day, and an instant inside a minute
KeyInstants ==
  { [day |-> 20513, ms |-> 45296789],   \* 2026-03-01T12:34:56.789Z
    [day |-> 20513, ms |-> 45299999],   \* 2026-03-01T12:34:59.999Z
    [day |-> 20513, ms |-> 45599999],   \* 2026-03-01T12:39:59.999Z
    [day |-> 20521, ms |-> 35999999],   \* 2026-03-09T09:59:59.999Z
    [day |-> 19781, ms |-> 86399999],   \* 2024-02-28T23:59:59.999Z
    [day |-> 19782, ms |-> 86399999],   \* 2024-02-29T23:59:59.999Z
    [day |-> 20726, ms |-> 86399999],   \* 2026-09-30T23:59:59.999Z
    [day |-> 20453, ms |-> 86399999],   \* 2025-12-31T23:59:59.999Z
    [day |-> 14609, ms |-> 86399999],   \* 2009-12-31T23:59:59.999Z
    [day |-> 10956, ms |-> 86399999] }  \* 1999-12-31T23:59:59.999Z

\* the longer times that pass between two requests: a second, a minute, nine
\* and ten minutes, an hour, 61 minutes, a day, 31 days, 366 days
Jumps ==
  { [days |-> 0, ms |-> 1000], [days |-> 0, ms |-> 60000],
    [days |-> 0, ms |-> 540000], [days |-> 0, ms |-> 600000],
    [days |-> 0, ms |-> 3600000], [days |-> 0, ms |-> 3660000],
    [days |-> 1, ms |-> 0], [days |-> 31, ms |-> 0], [days |-> 366, ms |-> 0] }

Jump ==
  /\ ticks < MaxTicks
  /\ \E j \in Jumps :
       clock' = DatePlus([day |-> clock.day + j.days, ms |-> clock.ms], j.ms)
  /\ ticks' = ticks + 1
  /\ UNCHANGED <<PageLoadModel, PageLoadDetailModel, AnalyticsEventModel, req>>

InitKey == \E now \in KeyInstants : Started(now, {})

NextKey ==
  \/ Tick
  \/ Jump
  \/ \E r \in Requests : PageLoadStart(r)

SpecKey == InitKey /\ [][NextKey]_vars

(***************************************************************************)
(* GET /api/analytics/pageloads over a range of instants and of stored     *)
(* counters: the counters earlier page loads have left.                    *)
(***************************************************************************)
\* the instants of the queries: the hour before them spans a change of year,
\* a leap day, a change of hour from 09 to 10, or lies inside one day
SeriesInstants ==
  { [day |-> 20513, ms |-> 45296789],   \* 2026-03-01T12:34:56.789Z
    [day |-> 20454, ms |-> 600000],     \* 2026-01-01T00:10:00.000Z
    [day |-> 19783, ms |-> 1800500],    \* 2024-03-01T00:30:00.500Z
    [day |-> 20521, ms |-> 36300000],   \* 2026-03-09T10:05:00.000Z
    [day |-> 20453, ms |-> 86399999] }  \* 2025-12-31T23:59:59.999Z

\* the counter n page loads taken at instant t leave: the first upsert inserts
\* it, each later one updates it
RECURSIVE Counter(_, _, _)
Counter(id, t, n) ==
  IF n = 1 THEN UpsertDocument(id, "pageLoad", MinuteKey(t), t)
  ELSE ApplyUpdate(Counter(id, t, n - 1), t)

\* how many minutes before the query the page loads of a stored counter were
\* taken: inside the hour, at its two ends and before it
SparseMinutes == {0, 5, 20, 59, 60, 61}

\* the number of page loads taken in the minute m minutes before the query
LoadsAt(m) == 1 + (m % 4)

\* the counters of the page loads taken in the minutes given before now
CountersAt(now, minutes) ==
  {Counter(m + 1, DatePlus(now, 0 - m * 60000), LoadsAt(m)) : m \in minutes}

InitSeries ==
  \E now \in SeriesInstants :
    \E minutes \in (SUBSET SparseMinutes) \cup {0..59, 0..61} :
      Started(now, CountersAt(now, minutes))

\* one query is run on each of these stores
NextSeries ==
  LET r == 1
  IN  \/ SeriesStart(r)
      \/ SeriesFind(r)
      \/ SeriesFindFails(r)

SpecSeries == InitSeries /\ [][NextSeries]_vars

(***************************************************************************)
(* Page loads and a query of the series running together while time        *)
(* passes: NumRequests page loads and one GET /api/analytics/pageloads.    *)
(***************************************************************************)
\* the request that is the query, beside the page loads 1..NumRequests
Query == NumRequests + 1

\* the times that pass between the requests: 59 minutes and 60 minutes
Waits == { [days |-> 0, ms |-> 3540000], [days |-> 0, ms |-> 3600000] }

\* time passes, up to MaxWaitMinutes after the server's start
Wait ==
  /\ \E w \in Waits :
       /\ clock' = DatePlus([day |-> clock.day + w.days, ms |-> clock.ms], w.ms)
       /\ MinuteNumber(clock') - MinuteNumber(StartInstant) <= MaxWaitMinutes
  /\ UNCHANGED <<ticks, PageLoadModel, PageLoadDetailModel, AnalyticsEventModel, req>>

\* the server has started in the last minute of a year, the collections are
\* empty, no request has arrived
InitCount ==
  /\ clock = StartInstant
  /\ ticks = 0
  /\ PageLoadModel = {}
  /\ PageLoadDetailModel = {}
  /\ AnalyticsEventModel = {}
  /\ req = [r \in 1..Query |-> NewRequest]

NextCount ==
  \/ Wait
  \/ \E r \in Requests :
       \/ PageLoadStart(r)
       \/ UpsertMatch(r)
       \/ UpsertInsert(r)
       \/ IncrementFails(r)
       \/ DetailCreate(r)
       \/ DetailCreateFails(r)
  \/ SeriesStart(Query)
  \/ SeriesFind(Query)
  \/ SeriesFindFails(Query)

SpecCount == InitCount /\ [][NextCount]_vars

(***************************************************************************)
(* Properties of GET /api/analytics/pageloads, under SpecSeries.           *)
(***************************************************************************)
\* request r is a series query answered 200
SuccessfulSeries(r) ==
  /\ req[r].kind = "pageloads"
  /\ req[r].pc = "done"
  /\ req[r].responses[1].status = 200

\* C1: for every instant now and every set of stored counters, a successful
\* GET /api/analytics/pageloads answers once, with exactly 60 slots, oldest
\* first: the slot at position p (from 0) has the key the page-load handler
\* derives from the instant now - (59 - p) * 60 s.
C1_SixtySlotsOldestFirst ==
  \A r \in Requests :
    SuccessfulSeries(r) =>
      LET now == req[r].timestamp
          slots == req[r].responses[1].body
      IN  /\ Len(req[r].responses) = 1
          /\ Len(slots) = 60
          /\ \A p \in 0..59 :
               slots[p + 1].timeKey =
                 MinuteKey(DatePlus(now, 0 - (59 - p) * 60 * 1000))

\* C1's case: a query answered from 60 returned counters, its slots running
\* over a change of date
C1_Witness ==
  \E r \in Requests :
    /\ SuccessfulSeries(r)
    /\ Len(req[r].result) = 60
    /\ LET slots == req[r].responses[1].body
       IN  substring(slots[1].timeKey, 0, 10) # substring(slots[60].timeKey, 0, 10)

\* C2: in the series a query answers with, every slot's count is the count of
\* the returned counter whose timeKey equals the slot's timeKey, and 0 when no
\* returned counter has that timeKey; every returned counter of the last 60
\* minutes has its slot, which carries its count.
C2_SlotCounts ==
  \A r \in Requests :
    SuccessfulSeries(r) =>
      LET now == req[r].timestamp
          result == req[r].result
          slots == req[r].responses[1].body
      IN  /\ \A p \in 1..Len(slots) :
               LET same == {i \in 1..Len(result) :
                              result[i].timeKey = slots[p].timeKey}
               IN  /\ same = {} => slots[p].count = 0
                   /\ \A i \in same : slots[p].count = result[i].count
          /\ \A i \in 1..Len(result) :
               LET age == MinuteNumber(now) - MinuteNumber(result[i].lastUpdated)
               IN  age \in 0..59 =>
                     /\ slots[60 - age].timeKey = result[i].timeKey
                     /\ slots[60 - age].count = result[i].count

\* C2's case: three sparse counters of the last hour returned, slots with the
\* counts of 1 and of 2 page loads and slots with none
C2_Witness ==
  \E r \in Requests :
    /\ SuccessfulSeries(r)
    /\ Len(req[r].result) = 3
    /\ LET slots == req[r].responses[1].body
       IN  /\ {slots[p].count : p \in 1..60} = {0, 1, 2}
           /\ \A i \in 1..3 :
                \E p \in 1..60 : slots[p].timeKey = req[r].result[i].timeKey

(***************************************************************************)
(* Properties of the handlers running together, under Spec.                *)
(***************************************************************************)
\* request r is a page load whose increment has returned
Incremented(r) ==
  /\ req[r].kind = "pageload"
  /\ req[r].calls[1].outcome = "ok"

\* the page loads of key minuteKey whose increment has returned
IncrementedAt(minuteKey) ==
  {r \in Requests : Incremented(r) /\ req[r].minuteKey = minuteKey}

\* C3: no lost updates.  However the page loads of one key interleave, the
\* counter of ("pageLoad", key) counts every increment that has returned: there
\* is none before the first returns, and then exactly one document, whose count
\* is the number of increments returned; so after N page loads of one key
\* whose increments all succeed its count is N, and no two of them have
\* written a count of 1 each.
C3_NoLostUpdates ==
  \A r \in Requests :
    req[r].kind = "pageload" =>
      LET counters == Matching(PageLoadModel, "pageLoad", req[r].minuteKey)
          n == Cardinality(IncrementedAt(req[r].minuteKey))
      IN  IF n = 0 THEN counters = {}
          ELSE \E d \in counters : counters = {d} /\ d.count = n

\* C3's case: every request is a page load of one and the same key, all their
\* increments have returned and none has ended yet
C3_Witness ==
  /\ \A r \in Requests : Incremented(r) /\ req[r].pc = "create"
  /\ \A r1, r2 \in Requests : req[r1].minuteKey = req[r2].minuteKey
  /\ \E d \in PageLoadModel : d.count = NumRequests

\* C4: in every reachable state the PageLoad collection holds at most one
\* document per (eventType, timeKey).
C4_OneCounterPerKey ==
  \A d1, d2 \in PageLoadModel :
    (d1.eventType = d2.eventType /\ d1.timeKey = d2.timeKey) => d1 = d2

\* C4's case: two page loads of one key have both found no counter; one has
\* inserted it and the other is about to insert its own
C4_Witness ==
  \E r1, r2 \in Requests :
    /\ r1 # r2
    /\ Incremented(r1)
    /\ req[r2].kind = "pageload" /\ req[r2].pc = "upsertInsert"
    /\ req[r1].minuteKey = req[r2].minuteKey
    /\ \E d \in PageLoadModel : d.id = r1

\* request r is a page load whose increment returned and whose detail append
\* then threw
DetailFailed(r) ==
  /\ Incremented(r)
  /\ req[r].pc = "done"
  /\ Len(req[r].calls) = 2
  /\ req[r].calls[2].outcome \notin {"ok", "pending"}

\* C5: partial independence.  When a page load's increment has succeeded and
\* its detail append has then failed, the counter keeps the increment (it
\* still counts every increment returned for its key, this one included), no
\* detail record of the request is stored, and the caller has received one
\* response, the 500 with the failure's message.
C5_PartialIndependence ==
  \A r \in Requests :
    DetailFailed(r) =>
      /\ \E d \in Matching(PageLoadModel, "pageLoad", req[r].minuteKey) :
           /\ d.count = Cardinality(IncrementedAt(req[r].minuteKey))
           /\ d.count >= 1
      /\ \A d \in PageLoadDetailModel :
           d.id # r /\ d.timeKey # req[r].calls[2].timeKey
      /\ req[r].responses =
           <<[status |-> 500,
              body |-> [success |-> FALSE, error |-> req[r].calls[2].outcome]]>>

\* C5's case: a page load whose detail append failed after its increment had
\* inserted the counter of its key
C5_Witness ==
  \E r \in Requests :
    /\ DetailFailed(r)
    /\ \E d \in PageLoadModel : d.id = r /\ d.count = 1
    /\ PageLoadDetailModel = {}

\* the positions of the calls of request r that have thrown
FailedCalls(r) ==
  {i \in 1..Len(req[r].calls) : req[r].calls[i].outcome \notin {"ok", "pending"}}

\* C6: for each of the three endpoints, a request one of whose store
\* operations has failed ends with exactly one response, the 500 with
\* { success: false, error: <the failure's message> }, never the 200; the
\* failed operation is the last the request issues, and it is issued once.
C6_FailureIsOne500 ==
  \A r \in Requests :
    FailedCalls(r) # {} =>
      /\ FailedCalls(r) = {Len(req[r].calls)}
      /\ \A i, j \in 1..Len(req[r].calls) :
           req[r].calls[i].op = req[r].calls[j].op => i = j
      /\ req[r].pc = "done"
      /\ req[r].responses =
           <<[status |-> 500,
              body |-> [success |-> FALSE,
                        error |-> req[r].calls[Len(req[r].calls)].outcome]]>>

\* C6's case: a page load whose increment failed and a series query whose find
\* failed, both answered
C6_Witness ==
  \E r1, r2 \in Requests :
    /\ req[r1].kind = "pageload" /\ FailedCalls(r1) = {1}
    /\ req[r2].kind = "pageloads" /\ FailedCalls(r2) = {1}

\* C6's case for the third endpoint: a generic event whose create failed and
\* a page load whose detail append failed
C6_WitnessEvent ==
  \E r1, r2 \in Requests :
    /\ req[r1].kind = "event" /\ FailedCalls(r1) = {1}
    /\ req[r2].kind = "pageload" /\ FailedCalls(r2) = {2}

\* C9: a page load answered 200 { success: true } has issued exactly two store
\* calls, both returned: first the increment of ("pageLoad", the key of the
\* instant the handler took), then the append of a "pageLoadDetail" record;
\* and the 200 is its only response.
C9_OneIncrementOneAppend ==
  \A r \in Requests :
    (req[r].kind = "pageload" /\ \E i \in 1..Len(req[r].responses) :
                                   req[r].responses[i].status = 200) =>
      /\ req[r].responses = <<SuccessResponse>>
      /\ Len(req[r].calls) = 2
      /\ req[r].calls[1] =
           [op |-> "findOneAndUpdate", eventType |-> "pageLoad",
            timeKey |-> MinuteKey(req[r].timestamp), outcome |-> "ok"]
      /\ req[r].calls[2].op = "create"
      /\ req[r].calls[2].eventType = "pageLoadDetail"
      /\ req[r].calls[2].outcome = "ok"
      /\ \E d \in PageLoadDetailModel :
           d.id = r /\ d.eventType = "pageLoadDetail"

\* C9's case: a page load answered 200 after the clock has moved on from the
\* instant it took
C9_Witness ==
  \E r \in Requests :
    /\ req[r].kind = "pageload"
    /\ req[r].responses = <<SuccessResponse>>
    /\ req[r].timestamp # clock

\* C10 (the call): a generic-event request issues exactly one store call, a
\* create with eventType "event_" followed by the event's name.
EventIssuesOneAppend ==
  \A r \in Requests :
    req[r].kind = "event" =>
      /\ Len(req[r].calls) = 1
      /\ req[r].calls[1].op = "create"
      /\ req[r].calls[1].eventType = "event_" \o req[r].body.event

\* C10 (the frame): a step of a generic-event request, whether its create
\* returns or throws, leaves the set of counters and every count as they were.
EventStepLeavesCounters ==
  \A r \in Requests :
    ((req[r].kind = "event" \/ req'[r].kind = "event") /\ req'[r] # req[r]) =>
      PageLoadModel' = PageLoadModel

\* C10: a generic-event request issues exactly one detail append, with
\* eventType "event_" + the event name, and changes no counter, whether it
\* succeeds or fails.
C10_EventOnlyAppends ==
  [](EventIssuesOneAppend) /\ [][EventStepLeavesCounters]_vars

\* C10's case: a generic event has been stored while a counter exists
C10_Witness ==
  \E r \in Requests :
    /\ req[r].kind = "event"
    /\ req[r].responses = <<SuccessResponse>>
    /\ \E e \in AnalyticsEventModel : e.id = r /\ e.eventType = "event_button_click"
    /\ PageLoadModel # {}

(***************************************************************************)
(* Properties of the key, under SpecKey.                                   *)
(***************************************************************************)
\* the page loads that have taken their instant and derived their key
Keyed == {r \in Requests : req[r].kind = "pageload"}

\* t1 and t2 are equal through the tens digit of the minute: same date, same
\* hour, same ten minutes
SameTenMinutes(t1, t2) ==
  t1.day = t2.day /\ t1.ms \div 600000 = t2.ms \div 600000

\* C7 as stated: instants equal through the tens digit of the minute have the
\* same key.
C7_SameTenMinutesSameKey ==
  \A r1, r2 \in Keyed :
    SameTenMinutes(req[r1].timestamp, req[r2].timestamp) =>
      req[r1].minuteKey = req[r2].minuteKey

\* C7, amended: instants equal through the units digit of the minute (same
\* date, hour and minute) have the same key; the key is the first 16
\* characters of the ISO-8601 UTC string, which end at the units digit of the
\* minute, followed by "0:00".
C7_SameMinuteSameKey ==
  \A r1, r2 \in Keyed :
    LET t == req[r1].timestamp
        key == req[r1].minuteKey
    IN  /\ MinuteNumber(t) = MinuteNumber(req[r2].timestamp) =>
             key = req[r2].minuteKey
        /\ key = substring(toISOString(t), 0, 16) \o <<"0", ":", "0", "0">>
        /\ Len(key) = 20
        /\ <<key[15], key[16]>> = Pad((t.ms \div 60000) % 60, 2)

\* C7's case: two page loads taken at different instants of one minute
C7_Witness ==
  \E r1, r2 \in Keyed :
    /\ req[r1].timestamp # req[r2].timestamp
    /\ MinuteNumber(req[r1].timestamp) = MinuteNumber(req[r2].timestamp)

\* the counter of key minuteKey is in the range the series query of instant
\* now asks the store for
InQueryRange(minuteKey, now) ==
  LET counter == UpsertDocument(1, "pageLoad", minuteKey, now)
  IN  counter \in Find({counter}, "pageLoad",
                       MinuteKey(DatePlus(now, 0 - 60 * 60 * 1000)),
                       MinuteKey(now))

\* C8: for instants t1 < t2 the key of t1 is at most the key of t2 in string
\* order; so the range query of instant now, from the key of now - 60 min to
\* the key of now, selects exactly the counters of the minutes from 60
\* minutes before the minute of now to the minute of now.
C8_KeyOrderIsTimeOrder ==
  /\ \A r1, r2 \in Keyed :
       DateLess(req[r1].timestamp, req[r2].timestamp) =>
         StrLeq(req[r1].minuteKey, req[r2].minuteKey)
  /\ \A r \in Keyed :
       InQueryRange(req[r].minuteKey, clock) <=>
         (MinuteNumber(clock) - MinuteNumber(req[r].timestamp)) \in 0..60

\* C8's case: two page loads in different years, the earlier one 61 minutes
\* before the present instant and so out of the range, the later one in it
C8_Witness ==
  \E r1, r2 \in Keyed :
    /\ DateLess(req[r1].timestamp, req[r2].timestamp)
    /\ substring(req[r1].minuteKey, 0, 4) # substring(req[r2].minuteKey, 0, 4)
    /\ MinuteNumber(clock) - MinuteNumber(req[r1].timestamp) = 61
    /\ ~InQueryRange(req[r1].minuteKey, clock)
    /\ InQueryRange(req[r2].minuteKey, clock)

(***************************************************************************)
(* Counters against detail records, under Spec.                            *)
(***************************************************************************)
\* the sum of the counts of the records at positions lo..hi of a sequence
RECURSIVE SumOfCounts(_, _, _)
SumOfCounts(records, lo, hi) ==
  IF hi < lo THEN 0
  ELSE IF hi = lo THEN records[lo].count
  ELSE LET mid == (lo + hi) \div 2
       IN  SumOfCounts(records, lo, mid) + SumOfCounts(records, mid + 1, hi)

\* the sum of count over all counters of the PageLoad collection
TotalCount ==
  SumOfCounts(SortByTimeKey(PageLoadModel), 1, Cardinality(PageLoadModel))

\* request r is a page load whose increment has thrown
IncrementFailed(r) ==
  /\ req[r].kind = "pageload"
  /\ req[r].calls[1].outcome \notin {"ok", "pending"}

\* C11: in every reachable state the number of stored pageLoadDetail records
\* is at most the sum of count over all pageLoad counters; every stored detail
\* record is that of a page load whose increment has returned, and a page load
\* whose increment has failed has issued no detail append and has no record.
C11_DetailsAtMostCounted ==
  /\ Cardinality(PageLoadDetailModel) <= TotalCount
  /\ \A d \in PageLoadDetailModel :
       d.eventType = "pageLoadDetail" /\ Incremented(d.id)
  /\ \A r \in Requests :
       IncrementFailed(r) =>
         /\ Len(req[r].calls) = 1
         /\ \A d \in PageLoadDetailModel : d.id # r

\* C11's case: one page load's increment has failed, another's increment and
\* detail append have both returned; one detail record against a count of one
C11_Witness ==
  \E r1, r2 \in Requests :
    /\ IncrementFailed(r1)
    /\ Incremented(r2)
    /\ \E d \in PageLoadDetailModel : d.id = r2
    /\ Cardinality(PageLoadDetailModel) = 1
    /\ TotalCount = 1

(***************************************************************************)
(* End-to-end counting, under SpecCount.                                   *)
(***************************************************************************)
\* the page loads whose increment has returned and whose instant lies in one
\* of the 60 minutes from 59 minutes before the minute of now to that of now
CountedAt(now) ==
  {r \in Requests :
     /\ Incremented(r)
     /\ (MinuteNumber(now) - MinuteNumber(req[r].timestamp)) \in 0..59}

\* the query reads the store in this step and answers 200
QueryReads ==
  /\ req[Query].pc = "find"
  /\ req'[Query].pc = "done"
  /\ req'[Query].responses[1].status = 200

\* in a step where the query reads the store, the counts of its 60 slots sum
\* to the number of page loads counted at its instant, and each of these is
\* counted in the slot of its own minute and has its key in no other slot
ReadCountsEveryIncrement ==
  QueryReads =>
    LET now == req[Query].timestamp
        slots == req'[Query].responses[1].body
        counted == CountedAt(now)
    IN  /\ Len(slots) = 60
        /\ SumOfCounts(slots, 1, 60) = Cardinality(counted)
        /\ \A r \in counted :
             LET age == MinuteNumber(now) - MinuteNumber(req[r].timestamp)
             IN  /\ {p \in 1..60 : slots[p].timeKey = req[r].minuteKey}
                      = {60 - age}
                 /\ slots[60 - age].count =
                      Cardinality({o \in counted :
                                     req[o].minuteKey = req[r].minuteKey})

\* C12: end-to-end counting.  When the query reads the store at instant now,
\* the sum of count over its 60 slots is the number of page-load increments
\* that have returned before the read and were taken in one of the 60 minutes
\* now - 59 min .. now; each of them is counted in exactly one slot, that of
\* its own minute.
C12_EndToEndCount == [][ReadCountsEveryIncrement]_vars

\* C12's case: the query has answered with two slots of count 1, of two page
\* loads taken in different minutes, and 58 slots of count 0
C12_Witness ==
  /\ Query \in DOMAIN req
  /\ req[Query].pc = "done"
  /\ req[Query].responses[1].status = 200
  /\ LET slots == req[Query].responses[1].body
     IN  /\ SumOfCounts(slots, 1, 60) = 2
         /\ Cardinality({p \in 1..60 : slots[p].count = 1}) = 2
         /\ \A r \in Requests :
              /\ Incremented(r)
              /\ \E p \in 1..60 : slots[p].timeKey = req[r].minuteKey

=============================================================================
